---- MODULE Spec2Model ----
(***************************************************************************)
(* Model of Modbus.py: Modbus_device (connection with retry, registry of   *)
(* named registers, read / read_value / write_register) and                *)
(* Modbus_register (read, get_data, write) over a Modbus-TCP transport     *)
(* whose answers are nondeterministic.                                     *)
(***************************************************************************)
EXTENDS Integers, Sequences, FiniteSets, TLC

VARIABLES
    pc,          \* "connect": inside the loop of connect(); "idle"; "exited"
    connected,   \* Modbus_device.connected: "None", "True" or "False"
    i,           \* loop counter of the running connect()
    order,       \* keys of Modbus_device.registers, in dict order
    registers,   \* Modbus_device.registers: name -> Modbus_register
    call,        \* what the last completed call did and returned
    firstRegistered  \* names in the order of their first successful newRegister

vars == <<pc, connected, i, order, registers, call, firstRegistered>>

-----------------------------------------------------------------------------
(* Bounds and input sets *)

\* longest word list a transport reply carries
MaxReplyLen == 2

\* retries = 10 in connect()
retries == 10

\* number of values of one word. The transport's words have 16 bits; the model
\* scales them to 4 bits, so that the value of a multi-word list times the
\* factor stays inside TLC's 32-bit integers. The codec is the same in any base.
WordBase == 16

\* register names of the single-register scope and of the registry scope
Names == {"a"}
RegistryNames == {"a", "b"}

\* word values a reply may carry
WordValues == {0, WordBase - 1}

\* register declarations handed to newRegister; factor is num/den
Configs ==
    { [address |-> 66, length |-> 1, signed |-> FALSE, num |-> 1, den |-> 1,
       type |-> "int", unit |-> ""],
      [address |-> 10, length |-> 2, signed |-> TRUE, num |-> 1, den |-> 2,
       type |-> "float", unit |-> "V"],
      [address |-> 20, length |-> 1, signed |-> TRUE, num |-> 2, den |-> 1,
       type |-> "bool", unit |-> ""],
      [address |-> 30, length |-> 1, signed |-> TRUE, num |-> 1, den |-> 2,
       type |-> "int", unit |-> "A"] }

\* application values handed to write_register
WriteValues == {0, 7, -7, 300}

\* the inputs of the registry scope
RegistryConfigs == {c \in Configs : c.address \in {66, 10}}
RegistryValues == {7, 300}

\* the inputs of the whole-device scope: one declaration of two words, a failing
\* and a one-word reply, one written value
FrameConfigs == {c \in Configs : c.address = 10}
FrameReplies ==
    {[kind |-> "error", words |-> <<>>],
     [kind |-> "ok", words |-> <<WordBase - 1>>]}
FrameValues == {7}
FrameWriteReplies == {"ok", "raise"}

-----------------------------------------------------------------------------
(* Python values that cross the API: None, True, False, a word list, or a   *)
(* number (float in hundredths, int, bool as 0/1)                           *)

PyNone == [kind |-> "None", num |-> 0, words |-> <<>>]
PyBool(b) == [kind |-> IF b THEN "True" ELSE "False", num |-> 0, words |-> <<>>]
PyWords(w) == [kind |-> "words", num |-> 0, words |-> w]
PyNum(k, n) == [kind |-> k, num |-> n, words |-> <<>>]
\* a string and a list of rows; their content is kept in the rows of the call
PyStr == [kind |-> "str", num |-> 0, words |-> <<>>]
PyList == [kind |-> "list", num |-> 0, words |-> <<>>]

\* truthiness of a value as `if test:` sees it
Truthy(v) ==
    CASE v.kind = "None" -> FALSE
      [] v.kind = "True" -> TRUE
      [] v.kind = "False" -> FALSE
      [] v.kind = "words" -> Len(v.words) > 0
      [] v.kind = "float" -> v.num # 0
      [] v.kind = "int" -> v.num # 0
      [] v.kind = "bool" -> v.num # 0
      [] v.kind \in {"str", "list"} -> TRUE

-----------------------------------------------------------------------------
(* Transport answers *)

RECURSIVE SeqsOfLen(_, _)
SeqsOfLen(S, n) ==
    IF n = 0 THEN {<<>>}
    ELSE {Append(s, x) : s \in SeqsOfLen(S, n - 1), x \in S}

WordLists == UNION {SeqsOfLen(WordValues, n) : n \in 0..MaxReplyLen}

\* read_holding_registers: raises, answers an error response, or answers words
ReadReplies ==
    {[kind |-> "raise", words |-> <<>>], [kind |-> "error", words |-> <<>>]}
    \cup {[kind |-> "ok", words |-> w] : w \in WordLists}

NoReply == [kind |-> "none", words |-> <<>>]

RegistryReplies ==
    {[kind |-> "raise", words |-> <<>>], [kind |-> "error", words |-> <<>>],
     [kind |-> "ok", words |-> <<WordBase - 1>>]}

\* write_registers: raises, answers an error response, or acknowledges
WriteReplies == {"raise", "error", "ok"}

\* client.connect(): returns True, returns False, or raises
ConnectReplies == {"true", "false", "raise"}

\* client.close(): returns or raises
CloseReplies == {"ok", "raise"}

-----------------------------------------------------------------------------
(* Modbus_register *)

\* Modbus_register.__init__: response is a fresh ReadHoldingRegistersResponse()
\* (no error, no words), data [], error 0, value None
NewRegister(cfg) ==
    [address |-> cfg.address, length |-> cfg.length, signed |-> cfg.signed,
     num |-> cfg.num, den |-> cfg.den, type |-> cfg.type, unit |-> cfg.unit,
     response |-> [isError |-> FALSE, registers |-> <<>>],
     data |-> <<>>, error |-> 0, value |-> PyNone]

\* the configuration part of a register
ConfigOf(reg) ==
    [address |-> reg.address, length |-> reg.length, signed |-> reg.signed,
     num |-> reg.num, den |-> reg.den, type |-> reg.type, unit |-> reg.unit]

\* Modbus_register.read: error = 0; a raising transport sets error = 1 and
\* leaves response as it was; the assert raises on an error response
RegisterRead(reg, reply) ==
    LET cleared == [reg EXCEPT !.error = 0]
        after ==
            IF reply.kind = "raise"
            THEN [cleared EXCEPT !.error = 1]
            ELSE [cleared EXCEPT !.response =
                     [isError |-> reply.kind = "error", registers |-> reply.words]]
    IN  [reg |-> after, raised |-> after.response.isError]

\* get_data handing back the data of the read before this one
GetData_stale(reg, reply) ==
    LET r == RegisterRead(reg, reply)
    IN  IF r.raised
        THEN [reg |-> r.reg, raised |-> TRUE, ret |-> PyNone]
        ELSE [reg |-> [r.reg EXCEPT !.data = r.reg.response.registers],
              raised |-> FALSE,
              ret |-> PyWords(reg.data)]

\* Modbus_register.get_data: read(), then data = response.registers
GetData(reg, reply) ==
    LET r == RegisterRead(reg, reply)
    IN  IF r.raised
        THEN [reg |-> r.reg, raised |-> TRUE, ret |-> PyNone]
        ELSE [reg |-> [r.reg EXCEPT !.data = r.reg.response.registers],
              raised |-> FALSE,
              ret |-> PyWords(r.reg.response.registers)]

-----------------------------------------------------------------------------
(* TypeConversion: the word codec *)

RECURSIVE Pow(_, _)
Pow(b, n) == IF n = 0 THEN 1 ELSE b * Pow(b, n - 1)

\* big-endian value of a word list, read as unsigned
RECURSIVE Unsigned(_)
Unsigned(words) ==
    IF Len(words) = 0 THEN 0
    ELSE Unsigned(SubSeq(words, 1, Len(words) - 1)) * WordBase + words[Len(words)]

\* TC.list_to_number: two's complement over the full 16*L bits when signed
list_to_number(words, signed) ==
    LET u == Unsigned(words)
        full == Pow(WordBase, Len(words))
    IN  IF signed /\ Len(words) > 0 /\ 2 * u >= full THEN u - full ELSE u

\* value fits L words under the signedness
Fits(value, signed, L) ==
    IF signed
    THEN -Pow(WordBase, L) <= 2 * value /\ 2 * value < Pow(WordBase, L)
    ELSE 0 <= value /\ value < Pow(WordBase, L)

\* the L big-endian words of value modulo 2^(16*L)
RECURSIVE Encode(_, _)
Encode(value, L) ==
    IF L = 0 THEN <<>>
    ELSE Append(Encode((value % Pow(WordBase, L)) \div WordBase, L - 1),
                value % WordBase)

\* TC.number_to_wordList: length words when the value fits them; a value that
\* does not fit gives no list of at most length words (the codec fails, or the
\* list is longer than length)
number_to_wordList(value, signed, length) ==
    IF Fits(value, signed, length)
    THEN [fits |-> TRUE, words |-> Encode(value, length)]
    ELSE [fits |-> FALSE, words |-> <<>>]

-----------------------------------------------------------------------------
(* Python arithmetic *)

\* int(a / b) for b > 0: truncation toward zero
IntDiv(a, b) == IF a >= 0 THEN a \div b ELSE -((-a) \div b)

\* round(n / d, 2) for d > 0, in hundredths, halves to the even neighbour
Round2(n, d) ==
    LET q == (100 * n) \div d
        r == (100 * n) % d
    IN  IF 2 * r < d THEN q
        ELSE IF 2 * r > d THEN q + 1
        ELSE IF q % 2 = 0 THEN q ELSE q + 1

-----------------------------------------------------------------------------
(* Modbus_register.write and the Modbus_device helpers *)

\* a write that keeps the divided value and resets the factor to 1
RegisterWrite_rescales(reg, value, wreply) ==
    LET raw == IntDiv(value * reg.den, reg.num)
        enc == number_to_wordList(raw, reg.signed, reg.length)
    IN  IF ~enc.fits
        THEN [reg |-> reg, raised |-> TRUE, wrote |-> <<>>, raw |-> raw]
        ELSE IF wreply = "raise"
        THEN [reg |-> reg, raised |-> TRUE, wrote |-> <<enc.words>>, raw |-> raw]
        ELSE [reg |-> [reg EXCEPT !.value = PyWords(enc.words),
                                  !.num = 1, !.den = 1],
              raised |-> FALSE, wrote |-> <<enc.words>>, raw |-> raw]

\* Modbus_register.write: value = int(value / factor), encode, refuse a list
\* longer than length, else client.write_registers and value = the word list.
\* The answer rq of the transport is not looked at; only a raise skips the
\* assignment.
RegisterWrite(reg, value, wreply) ==
    LET raw == IntDiv(value * reg.den, reg.num)
        enc == number_to_wordList(raw, reg.signed, reg.length)
    IN  IF ~enc.fits
        THEN [reg |-> reg, raised |-> TRUE, wrote |-> <<>>, raw |-> raw]
        ELSE IF wreply = "raise"
        THEN [reg |-> reg, raised |-> TRUE, wrote |-> <<enc.words>>, raw |-> raw]
        ELSE [reg |-> [reg EXCEPT !.value = PyWords(enc.words)],
              raised |-> FALSE, wrote |-> <<enc.words>>, raw |-> raw]

\* Modbus_device.read: get_data of the named register; every exception
\* (KeyError, AssertionError) is logged and None is returned
DeviceRead(regs, name, reply) ==
    IF name \notin DOMAIN regs
    THEN [registers |-> regs, ret |-> PyNone, nreads |-> 0]
    ELSE LET g == GetData(regs[name], reply)
         IN  [registers |-> [regs EXCEPT ![name] = g.reg],
              ret |-> IF g.raised THEN PyNone ELSE g.ret,
              nreads |-> 1]

\* the number read_value computes before the cast, in hundredths: 0 unless
\* list_to_number(read(name)) * factor succeeds
ScaledValue(reg, ret) ==
    IF ret.kind = "words" /\ Len(ret.words) > 0
    THEN Round2(list_to_number(ret.words, reg.signed) * reg.num, reg.den)
    ELSE 0

\* the cast with int taken as the floor
CastValue_floor(type, hundredths) ==
    CASE type = "float" -> PyNum("float", hundredths)
      [] type = "int" -> PyNum("int", hundredths \div 100)
      [] type = "bool" -> PyNum("bool", IF hundredths = 0 THEN 0 ELSE 1)

\* the cast of read_value by the register's type
CastValue(type, hundredths) ==
    CASE type = "float" -> PyNum("float", hundredths)
      [] type = "int" -> PyNum("int", IntDiv(hundredths, 100))
      [] type = "bool" -> PyNum("bool", IF hundredths = 0 THEN 0 ELSE 1)

\* self.registers[name] = register
DictSet(regs, name, reg) ==
    [n \in DOMAIN regs \cup {name} |-> IF n = name THEN reg ELSE regs[n]]

\* del self.registers[name]
DictDel(regs, name) == [n \in DOMAIN regs \ {name} |-> regs[n]]

OrderSet(ord, name) ==
    IF \E k \in 1..Len(ord) : ord[k] = name THEN ord ELSE Append(ord, name)

OrderDel(ord, name) == SelectSeq(ord, LAMBDA n : n # name)

-----------------------------------------------------------------------------
(* Modbus_device operations, as functions of the registry and the inputs *)

\* newRegister without the delete on a failed probe
newRegister_keepsFailed(regs, ord, name, cfg, reply) ==
    LET probe == DeviceRead(DictSet(regs, name, NewRegister(cfg)), name, reply)
    IN  [registers |-> probe.registers, order |-> OrderSet(ord, name),
         ret |-> PyBool(Truthy(probe.ret)), nreads |-> probe.nreads]

\* newRegister: insert, probe with read(name), keep when the probe is truthy,
\* else delete the name
newRegister(regs, ord, name, cfg, reply) ==
    LET probe == DeviceRead(DictSet(regs, name, NewRegister(cfg)), name, reply)
    IN  IF Truthy(probe.ret)
        THEN [registers |-> probe.registers, order |-> OrderSet(ord, name),
              ret |-> PyBool(TRUE), nreads |-> probe.nreads]
        ELSE [registers |-> DictDel(probe.registers, name),
              order |-> OrderDel(ord, name),
              ret |-> PyBool(FALSE), nreads |-> probe.nreads]

\* removeRegister as self.registers.pop(name, None): silent when absent
removeRegister_silent(regs, ord, name) ==
    [registers |-> DictDel(regs, name), order |-> OrderDel(ord, name),
     raised |-> ""]

\* removeRegister: del self.registers[name], KeyError when absent
removeRegister(regs, ord, name) ==
    IF name \in DOMAIN regs
    THEN [registers |-> DictDel(regs, name), order |-> OrderDel(ord, name),
          raised |-> ""]
    ELSE [registers |-> regs, order |-> ord, raised |-> "KeyError"]

\* read_value: value = 0, overwritten when read and decode succeed; then the
\* cast by type is stored in the register and returned. KeyError when absent.
read_value(regs, name, reply) ==
    LET r == DeviceRead(regs, name, reply)
    IN  IF name \notin DOMAIN regs
        THEN [registers |-> regs, raised |-> "KeyError", ret |-> PyNone,
              nreads |-> r.nreads]
        ELSE LET reg == r.registers[name]
                 v == CastValue(reg.type, ScaledValue(reg, r.ret))
             IN  [registers |-> [r.registers EXCEPT ![name].value = v],
                  raised |-> "", ret |-> v, nreads |-> r.nreads]

\* write_register: KeyError when absent; every exception of register.write is
\* logged and the call returns None
write_register(regs, name, value, wreply) ==
    IF name \notin DOMAIN regs
    THEN [registers |-> regs, raised |-> "KeyError", wrote |-> <<>>,
          failed |-> FALSE, raw |-> 0]
    ELSE LET w == RegisterWrite(regs[name], value, wreply)
         IN  [registers |-> [regs EXCEPT ![name] = w.reg], raised |-> "",
              wrote |-> w.wrote, failed |-> w.raised, raw |-> w.raw]

\* round(value, 2) of read_all on a value read_value returned: a bool comes
\* back as the int 0 or 1, a float and an int keep their value
RoundRow(v) == IF v.kind = "bool" THEN PyNum("int", v.num) ELSE v

\* the unit of a row: the register's unit, "" when it is not set
UnitOf(reg) == IF reg.unit # "" THEN reg.unit ELSE ""

\* one pass of the loop of read_all: read_value of the name, one row appended
ReadAllStep(acc, name, r) ==
    [registers |-> r.registers,
     rows |-> Append(acc.rows, [name |-> name, value |-> RoundRow(r.ret),
                                unit |-> UnitOf(r.registers[name])]),
     nreads |-> acc.nreads + r.nreads]

\* the loop of read_all over the names left
RECURSIVE ReadAllLoop(_, _, _)
ReadAllLoop(acc, names, replies) ==
    IF names = <<>> THEN acc
    ELSE ReadAllLoop(
             ReadAllStep(acc, Head(names),
                         read_value(acc.registers, Head(names), replies[Head(names)])),
             Tail(names), replies)

\* read_all walking the names from the last to the first
read_all_reversed(regs, ord, replies) ==
    ReadAllLoop([registers |-> regs, rows |-> <<>>, nreads |-> 0],
                [k \in 1..Len(ord) |-> ord[Len(ord) + 1 - k]], replies)

\* read_all: for i in self.registers, in dict order
read_all(regs, ord, replies) ==
    ReadAllLoop([registers |-> regs, rows |-> <<>>, nreads |-> 0], ord, replies)

\* read_string: read_value(name), then name, value and unit in one string
read_string(regs, name, reply) ==
    LET r == read_value(regs, name, reply)
    IN  IF r.raised # ""
        THEN [registers |-> r.registers, raised |-> r.raised, rows |-> <<>>,
              nreads |-> r.nreads]
        ELSE [registers |-> r.registers, raised |-> "",
              rows |-> <<[name |-> name, value |-> r.ret,
                          unit |-> UnitOf(r.registers[name])]>>,
              nreads |-> r.nreads]

\* close: client.close() then connected = False; a raise skips the assignment
\* and is logged
close(conn, creply) == IF creply = "raise" THEN conn ELSE "False"

\* one pass of the loop body of connect: the value of connected afterwards
connectAttempt(conn, creply) ==
    CASE creply = "true" -> "True"
      [] creply = "false" -> "False"
      [] creply = "raise" -> conn

\* connect without the break
connectBreaks_never(creply) == FALSE

\* `if self.connected: break`, reached only when client.connect() returned
connectBreaks(creply) == creply # "raise" /\ connectAttempt("None", creply) = "True"

-----------------------------------------------------------------------------
(* The record kept of the last call *)

NoCall ==
    [op |-> "none", name |-> "", known |-> FALSE, raised |-> "",
     ret |-> PyNone, reply |-> NoReply, nreads |-> 0,
     value |-> 0, wreply |-> "none", wrote |-> <<>>, failed |-> FALSE,
     attempts |-> 0, raises |-> 0, sleeps |-> 0, succeeded |-> FALSE,
     creply |-> "none", raw |-> 0, rows |-> <<>>]

ConnectEntered == [NoCall EXCEPT !.op = "connect"]

-----------------------------------------------------------------------------
(* State machine *)

\* __init__: connected = None, connect() is running, registers = {}
Init ==
    /\ pc = "connect"
    /\ connected = "None"
    /\ i = 0
    /\ order = <<>>
    /\ registers = <<>>
    /\ call = ConnectEntered
    /\ firstRegistered = <<>>

\* the device after __init__ returned: the first attempt of connect() succeeded
InitConnected ==
    /\ pc = "idle"
    /\ connected = "True"
    /\ i = 0
    /\ order = <<>>
    /\ registers = <<>>
    /\ call = [ConnectEntered EXCEPT !.op = "connected", !.attempts = 1,
                  !.succeeded = TRUE, !.creply = "true"]
    /\ firstRegistered = <<>>

\* a caller invokes connect() on the constructed device
Connect ==
    /\ pc = "idle"
    /\ pc' = "connect"
    /\ i' = 0
    /\ call' = ConnectEntered
    /\ UNCHANGED <<connected, order, registers, firstRegistered>>

\* one pass of `while i < retries`: break on success, else i += 1 and sleep
ConnectStep ==
    /\ pc = "connect"
    /\ \E creply \in ConnectReplies :
         LET conn == connectAttempt(connected, creply)
             broke == connectBreaks(creply)
         IN  /\ connected' = conn
             /\ i' = IF broke THEN i ELSE i + 1
             /\ pc' = IF broke \/ i + 1 >= retries THEN "check" ELSE "connect"
             /\ call' = [call EXCEPT
                    !.attempts = @ + 1,
                    !.raises = IF creply = "raise" THEN @ + 1 ELSE @,
                    !.sleeps = IF broke THEN @ ELSE @ + 1,
                    !.succeeded = @ \/ creply = "true",
                    !.creply = creply]
    /\ UNCHANGED <<order, registers, firstRegistered>>

\* after the loop: exit() unless connected
ConnectReturn ==
    /\ pc = "check"
    /\ IF connected = "True"
       THEN /\ pc' = "idle"
            /\ call' = [call EXCEPT !.op = "connected"]
       ELSE /\ pc' = "exited"
            /\ call' = [call EXCEPT !.op = "connected", !.raised = "SystemExit"]
    /\ i' = 0
    /\ UNCHANGED <<connected, order, registers, firstRegistered>>

Close ==
    /\ pc = "idle"
    /\ \E creply \in CloseReplies :
         /\ connected' = close(connected, creply)
         /\ call' = [NoCall EXCEPT !.op = "close", !.creply = creply]
    /\ UNCHANGED <<pc, i, order, registers, firstRegistered>>

NewRegisterCall(NS, CS, RS) ==
    /\ pc = "idle"
    /\ \E name \in NS, cfg \in CS, reply \in RS :
         LET r == newRegister(registers, order, name, cfg, reply)
         IN  /\ registers' = r.registers
             /\ order' = r.order
             /\ call' = [NoCall EXCEPT !.op = "newRegister", !.name = name,
                            !.known = name \in DOMAIN registers,
                            !.ret = r.ret, !.reply = reply,
                            !.nreads = r.nreads]
             /\ firstRegistered' =
                    IF r.ret = PyBool(TRUE) THEN OrderSet(firstRegistered, name)
                    ELSE firstRegistered
    /\ UNCHANGED <<pc, connected, i>>

RemoveRegisterCall(NS) ==
    /\ pc = "idle"
    /\ \E name \in NS :
         LET r == removeRegister(registers, order, name)
         IN  /\ registers' = r.registers
             /\ order' = r.order
             /\ call' = [NoCall EXCEPT !.op = "removeRegister", !.name = name,
                            !.known = name \in DOMAIN registers,
                            !.raised = r.raised]
    /\ UNCHANGED <<pc, connected, i, firstRegistered>>

ReadCall(NS, RS) ==
    /\ pc = "idle"
    /\ \E name \in NS, reply \in RS :
         LET r == DeviceRead(registers, name, reply)
         IN  /\ registers' = r.registers
             /\ call' = [NoCall EXCEPT !.op = "read", !.name = name,
                            !.known = name \in DOMAIN registers,
                            !.ret = r.ret,
                            !.reply = IF r.nreads = 0 THEN NoReply ELSE reply,
                            !.nreads = r.nreads]
    /\ UNCHANGED <<pc, connected, i, order, firstRegistered>>

ReadValueCall(NS, RS) ==
    /\ pc = "idle"
    /\ \E name \in NS, reply \in RS :
         LET r == read_value(registers, name, reply)
         IN  /\ registers' = r.registers
             /\ call' = [NoCall EXCEPT !.op = "read_value", !.name = name,
                            !.known = name \in DOMAIN registers,
                            !.raised = r.raised, !.ret = r.ret,
                            !.reply = IF r.nreads = 0 THEN NoReply ELSE reply,
                            !.nreads = r.nreads]
    /\ UNCHANGED <<pc, connected, i, order, firstRegistered>>

WriteRegisterCall(NS, VS, WS) ==
    /\ pc = "idle"
    /\ \E name \in NS, value \in VS, wreply \in WS :
         LET r == write_register(registers, name, value, wreply)
         IN  /\ registers' = r.registers
             /\ call' = [NoCall EXCEPT !.op = "write_register", !.name = name,
                            !.known = name \in DOMAIN registers,
                            !.raised = r.raised, !.value = value,
                            !.wreply = IF r.wrote = <<>> THEN "none" ELSE wreply,
                            !.wrote = r.wrote, !.failed = r.failed,
                            !.raw = r.raw]
    /\ UNCHANGED <<pc, connected, i, order, firstRegistered>>

ReadStringCall(NS, RS) ==
    /\ pc = "idle"
    /\ \E name \in NS, reply \in RS :
         LET r == read_string(registers, name, reply)
         IN  /\ registers' = r.registers
             /\ call' = [NoCall EXCEPT !.op = "read_string", !.name = name,
                            !.known = name \in DOMAIN registers,
                            !.raised = r.raised,
                            !.ret = IF r.raised = "" THEN PyStr ELSE PyNone,
                            !.rows = r.rows,
                            !.reply = IF r.nreads = 0 THEN NoReply ELSE reply,
                            !.nreads = r.nreads]
    /\ UNCHANGED <<pc, connected, i, order, firstRegistered>>

ReadAllCall(NS, RS) ==
    /\ pc = "idle"
    /\ \E replies \in [NS -> RS] :
         LET r == read_all(registers, order, replies)
         IN  /\ registers' = r.registers
             /\ call' = [NoCall EXCEPT !.op = "read_all", !.ret = PyList,
                            !.rows = r.rows, !.nreads = r.nreads]
    /\ UNCHANGED <<pc, connected, i, order, firstRegistered>>

\* one register name, every declaration, reply and written value
Next ==
    \/ NewRegisterCall(Names, Configs, ReadReplies)
    \/ RemoveRegisterCall(Names)
    \/ ReadCall(Names, ReadReplies)
    \/ ReadValueCall(Names, ReadReplies)
    \/ WriteRegisterCall(Names, WriteValues, WriteReplies)
    \/ ReadStringCall(Names, ReadReplies)
    \/ ReadAllCall(Names, ReadReplies)

Spec == InitConnected /\ [][Next]_vars

\* the connection alone: __init__, connect() and close()
NextConnection ==
    \/ Connect
    \/ ConnectStep
    \/ ConnectReturn
    \/ Close

SpecConnection == Init /\ [][NextConnection]_vars

\* two register names, with few declarations, replies and written values
NextRegistry ==
    \/ RemoveRegisterCall(RegistryNames)
    \/ NewRegisterCall(RegistryNames, RegistryConfigs, RegistryReplies)
    \/ ReadCall(RegistryNames, RegistryReplies)
    \/ ReadValueCall(RegistryNames, RegistryReplies)
    \/ WriteRegisterCall(RegistryNames, RegistryValues, WriteReplies)
    \/ ReadStringCall(RegistryNames, RegistryReplies)
    \/ ReadAllCall(RegistryNames, RegistryReplies)

SpecRegistry == InitConnected /\ [][NextRegistry]_vars

\* the whole device: construction, connect() and close() between the register
\* operations, two register names
NextFrame ==
    \/ Connect
    \/ ConnectStep
    \/ ConnectReturn
    \/ Close
    \/ NewRegisterCall(RegistryNames, FrameConfigs, FrameReplies)
    \/ RemoveRegisterCall(RegistryNames)
    \/ ReadCall(RegistryNames, FrameReplies)
    \/ ReadValueCall(RegistryNames, FrameReplies)
    \/ WriteRegisterCall(RegistryNames, FrameValues, FrameWriteReplies)
    \/ ReadStringCall(RegistryNames, FrameReplies)
    \/ ReadAllCall(RegistryNames, FrameReplies)

SpecFrame == Init /\ [][NextFrame]_vars

-----------------------------------------------------------------------------
(* Properties *)

\* the probe read of a call failed: the transport raised, answered an error
\* response, or answered no words
ProbeFailed(c) ==
    c.reply.kind \in {"raise", "error"}
    \/ (c.reply.kind = "ok" /\ Len(c.reply.words) = 0)

\* the transport failed during the read of a call
TransportFailed(c) == c.reply.kind \in {"raise", "error"}

\* the call ended with an exception, or at least without a result
FailureReported(c) == c.raised # "" \/ c.ret = PyNone

\* connect() is past its loop
ConnectDone == pc = "check" \/ call.op = "connected"

\* C1: a newRegister on a name that is not registered leaves the name out of
\* the registry and returns False when its probe read fails (raise, error
\* response, no words), and registers the name and returns True when its probe
\* read succeeds, whatever came before it (a failed newRegister of the same name
\* included).
C1_RegistrationRollback ==
    (call.op = "newRegister" /\ ~call.known) =>
        IF ProbeFailed(call)
        THEN call.name \notin DOMAIN registers /\ call.ret = PyBool(FALSE)
        ELSE call.name \in DOMAIN registers /\ call.ret = PyBool(TRUE)

C1_Witness ==
    /\ call.op = "newRegister"
    /\ ~call.known
    /\ ProbeFailed(call)
    /\ call.name \notin DOMAIN registers
    /\ call.ret = PyBool(FALSE)

\* C2: a newRegister on a name that is already registered fails and leaves the
\* registry as it was: the same names in the same order, each with the register
\* it had.
C2_DuplicateRejected ==
    [][(call'.op = "newRegister" /\ call'.name \in DOMAIN registers) =>
          /\ call'.ret # PyBool(TRUE)
          /\ registers' = registers
          /\ order' = order]_vars

\* C3: a newRegister on a new name reads the transport exactly once; when that
\* read answers words without error the call returns True and the name is
\* registered; and a read of a registered name that the transport answers with
\* words returns exactly those words.
C3_ProbeSuccess ==
    /\ (call.op = "newRegister" /\ ~call.known) =>
          /\ call.nreads = 1
          /\ (call.reply.kind = "ok" /\ Len(call.reply.words) > 0) =>
                (call.ret = PyBool(TRUE) /\ call.name \in DOMAIN registers)
    /\ (call.op = "read" /\ call.known /\ call.reply.kind = "ok") =>
          /\ call.nreads = 1
          /\ call.ret = PyWords(call.reply.words)
          /\ registers[call.name].data = call.reply.words

C3_Witness ==
    /\ call.op = "read"
    /\ call.known
    /\ call.reply.kind = "ok"
    /\ Len(call.reply.words) = registers[call.name].length
    /\ call.ret = PyWords(call.reply.words)

\* C4: one connect() makes at most retries attempts, none after the attempt
\* that succeeded and no sleep after it either, and sleeps exactly retries times
\* when every attempt fails.
C4_RetryBound ==
    (call.op \in {"connect", "connected"}) =>
        /\ call.attempts <= retries
        /\ (pc = "connect" => ~call.succeeded)
        /\ (call.succeeded =>
               call.creply = "true" /\ call.sleeps = call.attempts - 1)
        /\ (ConnectDone /\ ~call.succeeded =>
               call.attempts = retries /\ call.sleeps = retries)

C4_Witness ==
    /\ ConnectDone
    /\ ~call.succeeded
    /\ call.sleeps = retries
    /\ call.raises > 0
    /\ call.raises < retries

\* C5: when every attempt of a connect() fails, the device is not connected,
\* the caller gets a ConnectionError and the process is not terminated.
C5_FailureReturned ==
    (call.op = "connected" /\ ~call.succeeded) =>
        /\ connected # "True"
        /\ call.raised = "ConnectionError"
        /\ pc # "exited"

\* C6: after every close() connected is False, also when client.close() raised.
C6_CloseDisconnects ==
    (call.op = "close") => (connected = "False" /\ call.raised = "")

\* C7: removeRegister of a name that is not registered raises and leaves the
\* registry as it was; of a registered name it removes that name and nothing
\* else; so a second removeRegister of the same name right after raises.
C7_RemoveRegister ==
    [][(call'.op = "removeRegister") =>
          /\ IF call'.name \in DOMAIN registers
             THEN /\ call'.raised = ""
                  /\ DOMAIN registers' = DOMAIN registers \ {call'.name}
                  /\ \A n \in DOMAIN registers' : registers'[n] = registers[n]
                  /\ order' = SelectSeq(order, LAMBDA n : n # call'.name)
             ELSE /\ call'.raised = "KeyError"
                  /\ registers' = registers
                  /\ order' = order
          /\ (call.op = "removeRegister" /\ call.raised = ""
                /\ call.name = call'.name) => call'.raised = "KeyError"]_vars

C7_Witness ==
    /\ call.op = "removeRegister"
    /\ call.known
    /\ call.raised = ""
    /\ call.name \notin DOMAIN registers
    /\ DOMAIN registers # {}

\* C8: a read or read_value of a registered name whose transport read raises or
\* answers an error response ends in a failure, and returns neither words nor a
\* decoded value.
C8_FailedReadReturnsNothing ==
    (call.op \in {"read", "read_value"} /\ call.known /\ TransportFailed(call)) =>
        /\ FailureReported(call)
        /\ call.ret.kind \notin {"words", "float", "int", "bool"}

\* C9: a read or read_value of a registered name whose transport read fails
\* leaves the register's cached value and cached words as they were.
C9_FailedReadKeepsCache ==
    [][(call'.op \in {"read", "read_value"} /\ call'.name \in DOMAIN registers
           /\ TransportFailed(call')) =>
          /\ registers'[call'.name].value = registers[call'.name].value
          /\ registers'[call'.name].data = registers[call'.name].data]_vars

\* C10: a write_register whose raw integer does not fit the register's length
\* words ends in ValueOutOfRange at the caller and issues no transport write;
\* every transport write carries exactly length words.
C10_OverflowRejected ==
    (call.op = "write_register" /\ call.known) =>
        LET reg == registers[call.name]
            raw == IntDiv(call.value * reg.den, reg.num)
        IN  /\ \A k \in 1..Len(call.wrote) : Len(call.wrote[k]) = reg.length
            /\ ~Fits(raw, reg.signed, reg.length) =>
                  (call.raised = "ValueOutOfRange" /\ call.wrote = <<>>)

\* the names of the rows of a call, in their order
RowNames(c) == [k \in 1..Len(c.rows) |-> c.rows[k].name]

\* the registered names in the order of their first registration
FirstRegisteredOrder ==
    SelectSeq(firstRegistered, LAMBDA n : n \in DOMAIN registers)

\* C11 as stated: read_all returns one row per registered name in the order
\* the names were first registered, with the unit or "", and reads the
\* transport once per register.
C11_FirstRegistrationOrder ==
    (call.op = "read_all") =>
        /\ RowNames(call) = FirstRegisteredOrder
        /\ call.nreads = Cardinality(DOMAIN registers)

\* C11 as amended: read_all returns one row per registered name in the
\* registry's insertion order, where a name that left the registry and was
\* registered again stands at the end; each row carries the value cached by
\* its read and the register's unit ("" when unset); the transport is read
\* once per register.
C11_InsertionOrder ==
    (call.op = "read_all") =>
        /\ RowNames(call) = order
        /\ Len(call.rows) = Cardinality(DOMAIN registers)
        /\ {call.rows[k].name : k \in 1..Len(call.rows)} = DOMAIN registers
        /\ \A k \in 1..Len(call.rows) :
              /\ call.rows[k].unit = registers[call.rows[k].name].unit
              /\ call.rows[k].value.num = registers[call.rows[k].name].value.num
        /\ call.nreads = Len(call.rows)

C11_Witness ==
    /\ call.op = "read_all"
    /\ Len(call.rows) = 2
    /\ RowNames(call) # FirstRegisteredOrder
    /\ \E k \in 1..2 : call.rows[k].unit = ""
    /\ \E k \in 1..2 : call.rows[k].unit # ""

\* the calls that read one named register
ReadOps == {"read", "read_value", "read_string"}

\* C12: after write_register of a registered name, a write the transport
\* acknowledged leaves the words sent as the register's cached value; a write
\* the transport failed (raise or error response) or a value out of range is
\* reported to the caller and leaves the cached value as it was.
C12_WriteCache ==
    [][(call'.op = "write_register" /\ call'.name \in DOMAIN registers) =>
          IF call'.wreply = "ok"
          THEN registers'[call'.name].value = PyWords(call'.wrote[1])
          ELSE /\ call'.raised \in {"WriteError", "ValueOutOfRange"}
               /\ registers'[call'.name].value = registers[call'.name].value]_vars

\* C13: after a read of a register that left its error flag clear, the cached
\* words have exactly length entries.
C13_CachedWordCount ==
    (call.op \in ReadOps \cup {"newRegister"} /\ call.name \in DOMAIN registers
        /\ call.nreads = 1 /\ registers[call.name].error = 0) =>
        Len(registers[call.name].data) = registers[call.name].length

\* C14: a connect() that returns with the device connected had an attempt that
\* reported success.
C14_ConnectedBySuccess ==
    (call.op = "connected" /\ pc = "idle" /\ connected = "True") =>
        call.succeeded

\* C15: after a read of a registered name the register's error flag is set
\* exactly when the read failed: the transport raised or answered an error
\* response.
C15_ErrorFlag ==
    (call.op \in ReadOps /\ call.known) =>
        (registers[call.name].error = 1 <=> TransportFailed(call))

\* C16: read, read_value and write_register of a name that is not registered
\* end in a failure at the caller and call the transport neither for a read nor
\* for a write.
C16_UnknownName ==
    (call.op \in {"read", "read_value", "write_register"} /\ ~call.known) =>
        /\ call.raised # ""
        /\ call.nreads = 0
        /\ call.wrote = <<>>

\* n / d for d > 0 rounded to the nearest integer, a half to the even neighbour
RoundNearest(n, d) ==
    LET q == n \div d
        r == n % d
    IN  IF 2 * r < d THEN q
        ELSE IF 2 * r > d THEN q + 1
        ELSE IF q % 2 = 0 THEN q ELSE q + 1

\* C17: the raw integer write_register hands to the encoder is value / factor
\* rounded to the nearest integer.
C17_WriteRounds ==
    (call.op = "write_register" /\ call.known) =>
        call.raw = RoundNearest(call.value * registers[call.name].den,
                                registers[call.name].num)

\* decoded * factor in hundredths; exact for the factors of Configs
ScaledExact(reg, words) ==
    (100 * list_to_number(words, reg.signed) * reg.num) \div reg.den

\* the call was a read_value whose transport read answered the register's words
SuccessfulReadValue ==
    /\ call.op = "read_value"
    /\ call.known
    /\ call.reply.kind = "ok"
    /\ Len(call.reply.words) = registers[call.name].length

\* C18: a read_value whose read succeeded returns the decoded integer times
\* factor cast by the type: float keeps it, int cuts the fraction off toward
\* zero, bool is false exactly for 0; the value returned is the value cached.
C18_TypedValue ==
    SuccessfulReadValue =>
        LET reg == registers[call.name]
            h == ScaledExact(reg, call.reply.words)
            v == call.ret
        IN  /\ reg.value = v
            /\ v.kind = reg.type
            /\ reg.type = "float" => v.num = h
            /\ reg.type = "int" =>
                  IF h >= 0
                  THEN 100 * v.num <= h /\ h < 100 * v.num + 100
                  ELSE h <= 100 * v.num /\ 100 * v.num < h + 100
            /\ reg.type = "bool" => (v.num \in {0, 1} /\ (v.num = 0 <=> h = 0))

C18_Witness ==
    /\ SuccessfulReadValue
    /\ registers[call.name].type = "int"
    /\ ScaledExact(registers[call.name], call.reply.words) = -50
    /\ call.ret = PyNum("int", 0)

\* names, order and configuration of the registry are the same before and after
\* a step
RegistryKept ==
    /\ order' = order
    /\ DOMAIN registers' = DOMAIN registers
    /\ \A n \in DOMAIN registers : ConfigOf(registers'[n]) = ConfigOf(registers[n])

\* C19: read, read_value, read_string, read_all and write_register change
\* neither the set of registered names, nor their order, nor the configuration
\* (address, length, signed, factor, type, unit) of any register; a step that
\* changes names, order or a configuration belongs to newRegister or
\* removeRegister; the steps of connect and close leave the registers and
\* their order exactly as they were
C19_Frame ==
    [][/\ call'.op \in ReadOps \cup {"read_all", "write_register"} => RegistryKept
       /\ ~RegistryKept => call'.op \in {"newRegister", "removeRegister"}
       /\ call'.op \in {"connect", "connected", "close"}
              => registers' = registers /\ order' = order]_vars

\* connect() has run to its end on a device whose two registers both hold read
\* data and a written value
C19_Witness ==
    /\ call.op = "connected"
    /\ call.attempts > 1
    /\ pc = "idle"
    /\ order = <<"b", "a">>
    /\ \A n \in DOMAIN registers :
          registers[n].data # <<>> /\ registers[n].value # PyNone

====
